---- MODULE Spec2Model ----
(***************************************************************************)
(* The centroid tracker of the object-detection front end                  *)
(* (frontend/src/components/Tracker.jsx): the CentroidTracker engine and   *)
(* the frame pump of the Tracker component that drives it.                 *)
(*                                                                         *)
(* A JavaScript Map is modelled as the sequence of its entries in          *)
(* insertion order: set() of a present key overwrites in place, set() of   *)
(* a new key appends, delete() removes the entry.  Array indices are       *)
(* 1-based here and 0-based in the source.                                 *)
(*                                                                         *)
(* Math.hypot is modelled by the squared distance dx*dx + dy*dy: all       *)
(* centroids are integers, the square root is strictly increasing, so      *)
(* every comparison between two distances, and between a distance and an   *)
(* integer threshold, has the same outcome on the squares.                 *)
(***************************************************************************)
EXTENDS Integers, Sequences, FiniteSets, TLC

\* ------------------------------------------------------------------ bounds

\* Most boxes in one frame.
MaxBoxes == 2

\* update is not called with a frame that could make it issue an id above MaxID.
MaxID == 4

\* Largest max_disappeared an engine is constructed with.
MaxMissLimit == 1

\* Most calls of start() in one behaviour of the component.
MaxStarts == 2

\* Most answers of the detector in one behaviour of the component.
MaxDetects == 2

\* Most requests POST /api/detections in one behaviour of the backend.
MaxRequests == 2

\* Most detections in the body of one request.
MaxBatch == 2

\* The rectangles (x1, y1, x2, y2) a frame is made of: a zero-area one, one
\* whose midpoint has a half, which Math.round rounds up, and a far one with
\* its corners inverted.
\*   centroids: (0,0)  (1,0)  (4,1)
\*   distances: 1 between the first two, more than 4 from each to the third
Rects ==
    { <<0, 0, 0, 0>>, <<0, 0, 1, 0>>, <<3, 2, 5, 0>> }

\* The thresholds an engine is constructed with; the constructor takes any
\* number, so non-positive ones are among them.
MaxDisappearedVals == -1 .. MaxMissLimit
MaxDistanceVals == {-1, 0, 1}

RECURSIVE SeqsUpTo(_, _)
SeqsUpTo(S, n) ==
    IF n = 0 THEN {<<>>}
    ELSE LET shorter == SeqsUpTo(S, n - 1)
         IN  shorter \cup {Append(s, x) : s \in {t \in shorter : Len(t) = n - 1}, x \in S}

\* The frames: ordered sequences of at most MaxBoxes rectangles.
Frames == SeqsUpTo(Rects, MaxBoxes)

\* ------------------------------------------------------------------- state

VARIABLES
    nextObjectID,    \* CentroidTracker.nextObjectID
    objects,         \* CentroidTracker.objects: Map id -> centroid, as entries
    disappeared,     \* CentroidTracker.disappeared: Map id -> count, as entries
    maxDisappeared,  \* CentroidTracker.maxDisappeared
    maxDistance,     \* CentroidTracker.maxDistance
    last,            \* history: the most recent update call on this engine
    issued,          \* history: the ids register returned, in order
    gone,            \* history: the objects deregister removed, id -> last centroid
    missRun,         \* history: id -> consecutive update calls it went unmatched
    running,         \* Tracker: running
    logEnabled,      \* Tracker: logEnabled
    modelLoaded,     \* Tracker: modelRef.current is set
    stream,          \* Tracker: videoRef.current.srcObject holds a stream
    videoReady,      \* Tracker: videoRef.current.readyState >= 2
    frameIdx,        \* Tracker: frameIdx.current
    rafRef,          \* Tracker: rafRef.current, as the run whose request it is; 0 for null
    runs,            \* the calls of start(), each with the chain of ticks it begins
    dets,            \* detsWithIds of the tick that computed it last
    detects,         \* history: how often the detector has answered
    component,       \* which copy of the component is mounted
    caller,          \* history: the run whose tick called update last; 0 for none
    retried,         \* history: the run whose tick found no ready video in
                     \* the step just taken; 0 if the step was another
    express,         \* server: the major version of express the backend runs on
    reqs,            \* server: the requests POST /api/detections, each with
                     \* the position of its handler
    table,           \* server: per request, its rows the table detections holds
    inUse            \* server: the connections of the pool that are handed out

engineVars == <<nextObjectID, objects, disappeared, maxDisappeared, maxDistance>>
historyVars == <<last, issued, gone, missRun>>
pumpVars ==
    <<running, logEnabled, modelLoaded, stream, videoReady, frameIdx, rafRef,
      runs, dets, detects, component, caller, retried>>
serverVars == <<express, reqs, table, inUse>>
vars == <<engineVars, historyVars, pumpVars, serverVars>>

\* ------------------------------------------------------------ Map helpers

MapKeys(m) == [i \in 1 .. Len(m) |-> m[i].key]
MapHas(m, k) == \E i \in 1 .. Len(m) : m[i].key = k
MapGet(m, k) == (CHOOSE e \in {m[i] : i \in 1 .. Len(m)} : e.key = k).val
\* A table in which a key that is set again moves to the end.
MapSetMovesKey(m, k, v) ==
    Append(SelectSeq(m, LAMBDA e : e.key # k), [key |-> k, val |-> v])

MapSet(m, k, v) ==
    IF MapHas(m, k)
    THEN [i \in 1 .. Len(m) |-> IF m[i].key = k THEN [key |-> k, val |-> v] ELSE m[i]]
    ELSE Append(m, [key |-> k, val |-> v])
MapDelete(m, k) == SelectSeq(m, LAMBDA e : e.key # k)
KeySet(m) == {m[i].key : i \in 1 .. Len(m)}

\* ------------------------------------------------------- CentroidTracker

\* new CentroidTracker(maxDisappeared, maxDistance): any two numbers are
\* accepted.  The engine is carried as a record through the steps of one
\* call; issued and gone log the calls of register and deregister.
constructor(maxDis, maxDist) ==
    [ nextObjectID   |-> 1,
      objects        |-> <<>>,
      disappeared    |-> <<>>,
      maxDisappeared |-> maxDis,
      maxDistance    |-> maxDist,
      issued         |-> <<>>,
      gone           |-> <<>> ]

\* register with the id taken from the size of the table instead of the
\* counter.
registerBySize(e, centroid) ==
    LET id == Len(e.objects) + 1
    IN  [e EXCEPT !.nextObjectID = id + 1,
                  !.objects = MapSet(@, id, centroid),
                  !.disappeared = MapSet(@, id, 0),
                  !.issued = Append(@, id)]

register(e, centroid) ==
    LET id == e.nextObjectID
    IN  [e EXCEPT !.nextObjectID = id + 1,
                  !.objects = MapSet(@, id, centroid),
                  !.disappeared = MapSet(@, id, 0),
                  !.issued = Append(@, id)]

\* deregister that also hands the id back to the counter.
deregisterRecycle(e, id) ==
    [e EXCEPT !.nextObjectID = id,
              !.objects = MapDelete(@, id),
              !.disappeared = MapDelete(@, id),
              !.gone = Append(@, [key |-> id, val |-> MapGet(e.objects, id)])]

\* deregister that forgets the centroid table.
deregisterCountOnly(e, id) ==
    [e EXCEPT !.disappeared = MapDelete(@, id),
              !.gone = Append(@, [key |-> id, val |-> MapGet(e.objects, id)])]

deregister(e, id) ==
    [e EXCEPT !.objects = MapDelete(@, id),
              !.disappeared = MapDelete(@, id),
              !.gone = Append(@, [key |-> id, val |-> MapGet(e.objects, id)])]

\* Math.floor(s / 2) in place of Math.round.
RoundHalfDown(s) == s \div 2

\* Math.round(s / 2) for an integer s: halves round towards +Infinity.
RoundHalf(s) == (s + 1) \div 2

\* The centroid of a rectangle r = (x1, y1, x2, y2).
Centroid(r) == <<RoundHalf(r[1] + r[3]), RoundHalf(r[2] + r[4])>>

inputCentroids(rects) == [j \in 1 .. Len(rects) |-> Centroid(rects[j])]

\* The square of Math.hypot(dx, dy).
Hypot2(dx, dy) == dx * dx + dy * dy

\* The distance of two centroids, squared.
Dist2(a, b) == Hypot2(a[1] - b[1], a[2] - b[2])

\* minVal before the scan has seen an entry; no squared distance is negative.
Infinity == -1

\* The scan with <= for <: among equal minima the last pair wins.
CloserOrEqual(d, minVal) == minVal = Infinity \/ d <= minVal

\* D[r][c] < minVal
Closer(d, minVal) == minVal = Infinity \/ d < minVal

\* The threshold test with >= for >.
TooFarAtLimit(d2, maxDist) == maxDist < 0 \/ d2 >= maxDist * maxDist

\* The greedy loop without its threshold test.
TooFarNever(d2, maxDist) == FALSE

\* minVal > this.maxDistance, on the squared distance: a distance is never
\* below 0, so it exceeds every negative threshold.
TooFar(d2, maxDist) == maxDist < 0 \/ d2 > maxDist * maxDist

\* The removal test with >= for >.
ExpiredAtLimit(count, maxDis) == count >= maxDis

\* this.disappeared.get(id) > this.maxDisappeared
Expired(count, maxDis) == count > maxDis

\* The increment of a missed count.
Missed(count) == count + 1

\* One round of the for loops that age an object: count one more miss and
\* deregister the object when the count exceeds maxDisappeared.
AgeOne(e, id) ==
    LET e1 == [e EXCEPT !.disappeared = MapSet(@, id, Missed(MapGet(@, id)))]
    IN  IF Expired(MapGet(e1.disappeared, id), e1.maxDisappeared)
        THEN deregister(e1, id)
        ELSE e1

RECURSIVE AgeAll(_, _)
AgeAll(e, ids) ==
    IF ids = <<>> THEN e ELSE AgeAll(AgeOne(e, Head(ids)), Tail(ids))

\* Registration from the last centroid to the first.
RECURSIVE RegisterAllBackwards(_, _)
RegisterAllBackwards(e, cents) ==
    IF cents = <<>> THEN e
    ELSE register(RegisterAllBackwards(e, Tail(cents)), Head(cents))

RECURSIVE RegisterAll(_, _)
RegisterAll(e, cents) ==
    IF cents = <<>> THEN e ELSE RegisterAll(register(e, Head(cents)), Tail(cents))

\* The distance matrix: rows are the live objects in Map order, columns the
\* input centroids in input order.
DistMatrix(objectCentroids, cents) ==
    [i \in 1 .. Len(objectCentroids) |->
        [j \in 1 .. Len(cents) |-> Dist2(objectCentroids[i], cents[j])]]

\* The two nested for loops of one round of the greedy loop, from (r, c) on.
RECURSIVE ScanMin(_, _, _, _, _, _)
ScanMin(D, assignedRows, assignedCols, r, c, best) ==
    IF r > Len(D) THEN best
    ELSE IF r \in assignedRows \/ c > Len(D[r])
    THEN ScanMin(D, assignedRows, assignedCols, r + 1, 1, best)
    ELSE IF c \in assignedCols
    THEN ScanMin(D, assignedRows, assignedCols, r, c + 1, best)
    ELSE ScanMin(D, assignedRows, assignedCols, r, c + 1,
                 IF Closer(D[r][c], best.minVal)
                 THEN [minVal |-> D[r][c], minR |-> r, minC |-> c]
                 ELSE best)

\* The loop without assignedCols.add(minC): a column stays free.
RECURSIVE GreedyLoopColsFree(_, _, _, _, _)
GreedyLoopColsFree(D, maxDist, assignedRows, assignedCols, matches) ==
    LET best == ScanMin(D, assignedRows, assignedCols, 1, 1,
                        [minVal |-> Infinity, minR |-> -1, minC |-> -1])
    IN  IF best.minVal = Infinity THEN matches
        ELSE IF TooFar(best.minVal, maxDist) THEN matches
        ELSE GreedyLoopColsFree(D, maxDist, assignedRows \cup {best.minR},
                                assignedCols,
                                Append(matches, <<best.minR, best.minC>>))

\* while (true) { ... }: the matches, in the order they are committed.
RECURSIVE GreedyLoop(_, _, _, _, _)
GreedyLoop(D, maxDist, assignedRows, assignedCols, matches) ==
    LET best == ScanMin(D, assignedRows, assignedCols, 1, 1,
                        [minVal |-> Infinity, minR |-> -1, minC |-> -1])
    IN  IF best.minVal = Infinity THEN matches
        ELSE IF TooFar(best.minVal, maxDist) THEN matches
        ELSE GreedyLoop(D, maxDist, assignedRows \cup {best.minR},
                        assignedCols \cup {best.minC},
                        Append(matches, <<best.minR, best.minC>>))

\* matches.forEach without the reset of the missed count.
RECURSIVE ApplyMatchesNoReset(_, _, _, _)
ApplyMatchesNoReset(e, matches, objectIDs, cents) ==
    IF matches = <<>> THEN e
    ELSE LET objectID == objectIDs[Head(matches)[1]]
             e1 == [e EXCEPT !.objects = MapSet(@, objectID, cents[Head(matches)[2]])]
         IN  ApplyMatchesNoReset(e1, Tail(matches), objectIDs, cents)

\* matches.forEach: the matched object takes the input centroid and a
\* missed count of 0.
RECURSIVE ApplyMatches(_, _, _, _)
ApplyMatches(e, matches, objectIDs, cents) ==
    IF matches = <<>> THEN e
    ELSE LET objectID == objectIDs[Head(matches)[1]]
             e1 == [e EXCEPT !.objects = MapSet(@, objectID, cents[Head(matches)[2]]),
                             !.disappeared = MapSet(@, objectID, 0)]
         IN  ApplyMatches(e1, Tail(matches), objectIDs, cents)

\* The indices 1 .. n that no match took, ascending: the iteration order of
\* unmatchedRows and unmatchedCols.
Unmatched(n, taken) == SelectSeq([i \in 1 .. n |-> i], LAMBDA i : i \notin taken)

\* update(rects): the engine after the call and the matches it committed.
update(e, rects) ==
    LET cents == inputCentroids(rects)
    IN  IF Len(e.objects) = 0
        THEN [e |-> RegisterAll(e, cents), matches |-> <<>>]
        ELSE IF Len(rects) = 0
        THEN [e |-> AgeAll(e, MapKeys(e.disappeared)), matches |-> <<>>]
        ELSE LET objectIDs == MapKeys(e.objects)
                 objectCentroids == [i \in 1 .. Len(e.objects) |-> e.objects[i].val]
                 D == DistMatrix(objectCentroids, cents)
                 matches == GreedyLoop(D, e.maxDistance, {}, {}, <<>>)
                 rowsTaken == {matches[k][1] : k \in 1 .. Len(matches)}
                 colsTaken == {matches[k][2] : k \in 1 .. Len(matches)}
                 unmatchedRows == Unmatched(Len(D), rowsTaken)
                 unmatchedCols == Unmatched(Len(cents), colsTaken)
                 e1 == ApplyMatches(e, matches, objectIDs, cents)
                 e2 == AgeAll(e1, [k \in 1 .. Len(unmatchedRows) |-> objectIDs[unmatchedRows[k]]])
                 e3 == RegisterAll(e2, [k \in 1 .. Len(unmatchedCols) |-> cents[unmatchedCols[k]]])
             IN  [e |-> e3, matches |-> matches]

\* ----------------------------------------------------------------- engine

\* The engine the state variables hold.
Engine ==
    [ nextObjectID   |-> nextObjectID,
      objects        |-> objects,
      disappeared    |-> disappeared,
      maxDisappeared |-> maxDisappeared,
      maxDistance    |-> maxDistance,
      issued         |-> issued,
      gone           |-> gone ]

SetEngine(e) ==
    /\ nextObjectID' = e.nextObjectID
    /\ objects' = e.objects
    /\ disappeared' = e.disappeared
    /\ maxDisappeared' = e.maxDisappeared
    /\ maxDistance' = e.maxDistance
    /\ issued' = e.issued
    /\ gone' = e.gone

NoCall ==
    [called |-> FALSE, rects |-> <<>>, pre |-> <<>>, preDis |-> <<>>,
     matches |-> <<>>, nIssued |-> 0, nGone |-> 0, repeat |-> FALSE]

\* The ids a call matched: the keys of the rows of its matches.
MatchedIDs(pre, matches) == {pre[matches[k][1]].key : k \in 1 .. Len(matches)}

\* The history of one update call: what it was given, the tables it found,
\* the matches it committed, how often it called register and deregister,
\* whether the frame is the one of the call before, and how long each
\* object has gone unmatched.
RecordCall(rects, res) ==
    /\ last' = [called |-> TRUE, rects |-> rects, pre |-> objects,
                preDis |-> disappeared, matches |-> res.matches,
                nIssued |-> Len(res.e.issued) - Len(issued),
                nGone |-> Len(res.e.gone) - Len(gone),
                repeat |-> last.called /\ rects = last.rects]
    /\ missRun' =
        [id \in {res.e.issued[k] : k \in 1 .. Len(res.e.issued)} |->
            IF id \in KeySet(objects)
            THEN IF id \in MatchedIDs(objects, res.matches) THEN 0 ELSE missRun[id] + 1
            ELSE IF id \in DOMAIN missRun THEN missRun[id] ELSE 0]

EngineIs(e) ==
    /\ nextObjectID = e.nextObjectID
    /\ objects = e.objects
    /\ disappeared = e.disappeared
    /\ maxDisappeared = e.maxDisappeared
    /\ maxDistance = e.maxDistance
    /\ issued = e.issued
    /\ gone = e.gone
    /\ last = NoCall
    /\ missRun = <<>>

\* A call of start() that has not been made.
NoRun == [pc |-> "none", log |-> FALSE, fate |-> "-", calls |-> 0]

\* The component as mounted: nothing runs.
PumpIdle ==
    /\ running = FALSE
    /\ logEnabled = FALSE
    /\ modelLoaded = FALSE
    /\ stream = FALSE
    /\ videoReady = FALSE
    /\ frameIdx = 0
    /\ rafRef = 0
    /\ runs = [s \in 1 .. MaxStarts |-> NoRun]
    /\ dets = <<>>
    /\ detects = 0
    /\ caller = 0
    /\ retried = 0

\* A request that has not been made.
NoRequest ==
    [pc |-> "none", isArray |-> FALSE, n |-> 0, malformed |-> FALSE,
     acquired |-> 0, released |-> 0, pending |-> 0, status |-> 0, inserted |-> 0]

\* The backend with an empty table and no request.
ServerIdle ==
    /\ reqs = [r \in 1 .. MaxRequests |-> NoRequest]
    /\ table = [r \in 1 .. MaxRequests |-> 0]
    /\ inUse = 0

\* An engine constructed with any two thresholds, and no component using it.
Init ==
    /\ \E maxDis \in MaxDisappearedVals, maxDist \in MaxDistanceVals :
           EngineIs(constructor(maxDis, maxDist))
    /\ PumpIdle
    /\ component = "components/Tracker.jsx"
    /\ ServerIdle
    /\ express = 4

\* tracker.update(rects) on the engine.
Update ==
    /\ \E rects \in {f \in Frames : nextObjectID + Len(f) <= MaxID + 1} :
           \E res \in {update(Engine, rects)} :
               /\ SetEngine(res.e)
               /\ RecordCall(rects, res)
    /\ UNCHANGED pumpVars
    /\ UNCHANGED serverVars

Next == Update

Spec == Init /\ [][Next]_vars

\* ------------------------------------------------------ Tracker component
\* The component Tracker, of which the repository holds two copies:
\* frontend/src/components/Tracker.jsx, the one App.jsx imports, and a later
\* one in unnamed/part_000.  Their tick() is the same; start() of the later
\* copy sets running and frameIdx as soon as the model is loaded and builds
\* a new engine before its first tick.  The later copy can also play an
\* uploaded file in place of the camera; only the camera is modelled.
\* Each synchronous stretch of start() and tick(), from one await to the
\* next, is one action: JavaScript runs it to completion.  A run is one call
\* of start() and the chain of ticks it begins; its pc is
\*   "load"   start awaits loadModel()
\*   "media"  start awaits getUserMedia()
\*   "play"   start awaits videoRef.current.play()
\*   "raf"    tick is a pending requestAnimationFrame callback
\*   "detect" tick awaits modelRef.current.detect(video)
\*   "post"   tick awaits axios.post
\*   "done"   the chain has ended: an await rejected, or stop() cancelled
\*            its pending callback
\* log is logEnabled as the closure of that start and tick holds it, and
\* calls counts the calls of update the chain has made.

Components == {"components/Tracker.jsx", "unnamed/part_000"}

\* The copy whose start() sets running before the stream is there and
\* builds a new engine.
LaterCopy == component = "unnamed/part_000"

\* The thresholds of the component's engine.
TrackerMaxDisappeared == 40
TrackerMaxDistance == 80

\* The predictions left by the class filter, with the bbox (x, y, w, h) in
\* halves of a pixel: the filter keeps any subsequence of what the detector
\* returns, and the detector may return anything.
\* One becomes the rect (1, 0, 1, 0), the other (200, 0, 210, 0), more than
\* TrackerMaxDistance apart.
Predictions ==
    { [class |-> "person", bbox |-> <<1, 0, 0, 0>>],
      [class |-> "car", bbox |-> <<400, 0, 19, 0>>] }

Filtered == SeqsUpTo(Predictions, MaxBoxes)

\* Math.round(v) for v given in halves.
RectOf(p) ==
    <<RoundHalf(p.bbox[1]), RoundHalf(p.bbox[2]),
      RoundHalf(p.bbox[1] + p.bbox[3]), RoundHalf(p.bbox[2] + p.bbox[4])>>

\* bestId = null
Null == 0

\* The scan with <= for <: among equally near objects the last one wins.
BestCloserOrEqual(d, bestDist) == bestDist = Infinity \/ d <= bestDist

\* The comparison that a first distance never passes.
BestCloserThanFound(d, bestDist) == bestDist # Infinity /\ d < bestDist

\* d < bestDist
BestCloser(d, bestDist) == bestDist = Infinity \/ d < bestDist

\* for (const [id, cent] of objects.entries()), from entry k on.
RECURSIVE NearestFrom(_, _, _, _)
NearestFrom(entries, c, k, best) ==
    IF k > Len(entries) THEN best
    ELSE LET d == Dist2(entries[k].val, c)
         IN  NearestFrom(entries, c, k + 1,
                         IF BestCloser(d, best.bestDist)
                         THEN [bestId |-> entries[k].key, bestDist |-> d]
                         ELSE best)

detsWithIds(filtered, rects, entries, frameIndex) ==
    [i \in 1 .. Len(filtered) |->
        [ track_id    |-> NearestFrom(entries, Centroid(rects[i]), 1,
                                      [bestId |-> Null, bestDist |-> Infinity]).bestId,
          class_name  |-> filtered[i].class,
          rect        |-> rects[i],
          frame_index |-> frameIndex ]]

PumpInit ==
    /\ EngineIs(constructor(TrackerMaxDisappeared, TrackerMaxDistance))
    /\ PumpIdle
    /\ component \in Components
    /\ ServerIdle
    /\ express = 4

\* The end of tick: the frame is counted and the next tick requested.
TickEnds(s, rs) ==
    /\ frameIdx' = frameIdx + 1
    /\ rafRef' = s
    /\ runs' = [rs EXCEPT ![s] = [@ EXCEPT !.pc = "raf", !.fate = "-"]]

\* Giving the video another source, or none, rejects a play() that has not
\* resolved: the start() awaiting it ends there.
AbortPlay(rs) ==
    [s \in 1 .. MaxStarts |->
        IF rs[s].pc = "play" THEN [rs[s] EXCEPT !.pc = "done"] ELSE rs[s]]

\* start() of the later copy, from the model being there to getUserMedia.
SetsRunning ==
    IF LaterCopy
    THEN running' = TRUE /\ frameIdx' = 0
    ELSE UNCHANGED <<running, frameIdx>>

\* The button while it reads "Start Camera": start() runs up to its first
\* await that does not settle at once.
StartClick ==
    /\ ~running
    /\ \E s \in 1 .. MaxStarts :
           /\ runs[s].pc = "none"
           /\ \A t \in 1 .. s - 1 : runs[t].pc # "none"
           /\ runs' = [runs EXCEPT ![s] =
                          [pc |-> IF modelLoaded THEN "media" ELSE "load",
                           log |-> logEnabled, fate |-> "-", calls |-> 0]]
    /\ IF modelLoaded THEN SetsRunning ELSE UNCHANGED <<running, frameIdx>>
    /\ retried' = 0
    /\ UNCHANGED <<engineVars, historyVars, logEnabled, modelLoaded, stream,
                   videoReady, rafRef, dets, detects, component, caller>>
    /\ UNCHANGED serverVars

\* cocoSsd.load() resolves; start goes on to getUserMedia.
StartLoaded(s) ==
    /\ runs[s].pc = "load"
    /\ modelLoaded' = TRUE
    /\ runs' = [runs EXCEPT ![s].pc = "media"]
    /\ SetsRunning
    /\ retried' = 0
    /\ UNCHANGED <<engineVars, historyVars, logEnabled, stream, videoReady,
                   rafRef, dets, detects, component, caller>>
    /\ UNCHANGED serverVars

\* getUserMedia resolves; the stream becomes the video's source and play()
\* is called.
StartGotMedia(s) ==
    /\ runs[s].pc = "media"
    /\ stream' = TRUE
    /\ videoReady' = FALSE
    /\ runs' = [AbortPlay(runs) EXCEPT ![s].pc = "play"]
    /\ retried' = 0
    /\ UNCHANGED <<engineVars, historyVars, running, logEnabled, modelLoaded,
                   frameIdx, rafRef, dets, detects, component, caller>>
    /\ UNCHANGED serverVars

\* The browser has data of the stream to show.
VideoReady ==
    /\ stream /\ ~videoReady
    /\ videoReady' = TRUE
    /\ retried' = 0
    /\ UNCHANGED <<engineVars, historyVars, running, logEnabled, modelLoaded, stream,
                   frameIdx, rafRef, runs, dets, detects, component, caller>>
    /\ UNCHANGED serverVars

\* play() resolves, which takes a playing video.  The first copy sets
\* running and frameIdx here, the later one builds a new engine; then
\* tick() is called, finds the video ready and awaits the detector.
StartPlaying(s) ==
    /\ runs[s].pc = "play"
    /\ stream /\ videoReady
    /\ runs' = [runs EXCEPT ![s].pc = "detect"]
    /\ IF LaterCopy
       THEN /\ SetEngine(constructor(TrackerMaxDisappeared, TrackerMaxDistance))
            /\ last' = NoCall
            /\ missRun' = <<>>
            /\ UNCHANGED <<running, frameIdx>>
       ELSE /\ running' = TRUE
            /\ frameIdx' = 0
            /\ UNCHANGED <<engineVars, historyVars>>
    /\ retried' = 0
    /\ UNCHANGED <<logEnabled, modelLoaded, stream, videoReady, rafRef, dets,
                   detects, component, caller>>
    /\ UNCHANGED serverVars

\* An await of start rejects (the model does not load, the camera is
\* refused, play is aborted): start ends there.
StartFails(s) ==
    /\ runs[s].pc \in {"load", "media", "play"}
    /\ runs' = [runs EXCEPT ![s].pc = "done"]
    /\ retried' = 0
    /\ UNCHANGED <<engineVars, historyVars, running, logEnabled, modelLoaded, stream,
                   videoReady, frameIdx, rafRef, dets, detects, component, caller>>
    /\ UNCHANGED serverVars

\* The button while it reads "Stop": stop().
Stop ==
    /\ running
    /\ running' = FALSE
    /\ runs' = AbortPlay(IF rafRef # 0 /\ runs[rafRef].pc = "raf"
                         THEN [runs EXCEPT ![rafRef].pc = "done"]
                         ELSE runs)
    /\ stream' = FALSE
    /\ videoReady' = FALSE
    /\ retried' = 0
    /\ UNCHANGED <<engineVars, historyVars, logEnabled, modelLoaded, frameIdx,
                   rafRef, dets, detects, component, caller>>
    /\ UNCHANGED serverVars

\* The checkbox "Send logs to backend".
ToggleLog ==
    /\ logEnabled' = ~logEnabled
    /\ retried' = 0
    /\ UNCHANGED <<engineVars, historyVars, running, modelLoaded, stream, videoReady,
                   frameIdx, rafRef, runs, dets, detects, component, caller>>
    /\ UNCHANGED serverVars

\* A tick that goes on to the detector whether or not the video is ready.
TickFiresUnguarded(s) ==
    /\ runs[s].pc = "raf"
    /\ runs' = [runs EXCEPT ![s].pc = "detect"]
    /\ retried' = 0
    /\ UNCHANGED <<engineVars, historyVars, running, logEnabled, modelLoaded, stream,
                   videoReady, frameIdx, rafRef, dets, detects, component, caller>>
    /\ UNCHANGED serverVars

\* The animation frame callback: tick() up to its return or its first await.
TickFires(s) ==
    /\ runs[s].pc = "raf"
    /\ IF ~videoReady
       THEN /\ rafRef' = s
            /\ retried' = s
            /\ UNCHANGED runs
       ELSE /\ runs' = [runs EXCEPT ![s].pc = "detect"]
            /\ retried' = 0
            /\ UNCHANGED rafRef
    /\ UNCHANGED <<engineVars, historyVars, running, logEnabled, modelLoaded, stream,
                   videoReady, frameIdx, dets, detects, component, caller>>
    /\ UNCHANGED serverVars

\* detect() resolves: tick filters, calls update, gives each detection an
\* id, draws, and either posts the batch and awaits the answer (which the
\* server sends, refuses, or never gives) or ends.
DetectAnswers(s) ==
    /\ runs[s].pc = "detect"
    /\ detects < MaxDetects
    /\ detects' = detects + 1
    /\ caller' = s
    /\ retried' = 0
    /\ \E filtered \in {f \in Filtered : nextObjectID + Len(f) <= MaxID + 1} :
           LET rects == [i \in 1 .. Len(filtered) |-> RectOf(filtered[i])]
               called == [runs EXCEPT ![s].calls = @ + 1]
           IN  \E res \in {update(Engine, rects)} :
                   /\ SetEngine(res.e)
                   /\ RecordCall(rects, res)
                   /\ dets' = detsWithIds(filtered, rects, res.e.objects, frameIdx)
                   /\ IF runs[s].log /\ Len(filtered) > 0
                      THEN /\ \E fate \in {"ok", "fail", "never"} :
                                  runs' = [called EXCEPT ![s] = [@ EXCEPT !.pc = "post", !.fate = fate]]
                           /\ UNCHANGED <<frameIdx, rafRef>>
                      ELSE TickEnds(s, called)
    /\ UNCHANGED <<running, logEnabled, modelLoaded, stream, videoReady, component>>
    /\ UNCHANGED serverVars

\* detect() rejects: nothing catches it, tick ends without a request.
DetectFails(s) ==
    /\ runs[s].pc = "detect"
    /\ runs' = [runs EXCEPT ![s].pc = "done"]
    /\ retried' = 0
    /\ UNCHANGED <<engineVars, historyVars, running, logEnabled, modelLoaded, stream,
                   videoReady, frameIdx, rafRef, dets, detects, component, caller>>
    /\ UNCHANGED serverVars

\* The POST is answered or fails (the catch only warns): tick ends.
PostSettles(s) ==
    /\ runs[s].pc = "post"
    /\ runs[s].fate \in {"ok", "fail"}
    /\ TickEnds(s, runs)
    /\ retried' = 0
    /\ UNCHANGED <<engineVars, historyVars, running, logEnabled, modelLoaded, stream,
                   videoReady, dets, detects, component, caller>>
    /\ UNCHANGED serverVars

PumpNext ==
    \/ StartClick
    \/ Stop
    \/ ToggleLog
    \/ VideoReady
    \/ \E s \in 1 .. MaxStarts :
           \/ StartLoaded(s)
           \/ StartGotMedia(s)
           \/ StartPlaying(s)
           \/ StartFails(s)
           \/ TickFires(s)
           \/ DetectAnswers(s)
           \/ DetectFails(s)
           \/ PostSettles(s)

PumpSpec == PumpInit /\ [][PumpNext]_vars

\* The event loop runs every callback that is due and every continuation
\* whose promise has settled; the user need not click, and the detector and
\* the server need not answer.
FairPumpSpec ==
    /\ PumpSpec
    /\ \A s \in 1 .. MaxStarts :
           /\ WF_vars(TickFires(s))
           /\ WF_vars(PostSettles(s))

\* ------------------------------------------------- POST /api/detections
\* The handler of the backend in unnamed/part_000 (twice there, the same
\* but for its layout) on the pool of unnamed/part_001.  Each stretch of
\* the handler from one await to the next is one action; every call on the
\* database resolves or rejects.  A request holds
\*   isArray, n, malformed  its body: whether detections is an array, of
\*                          how many elements, and whether one of them is
\*                          null, so that detections.map throws
\*   pc        "getConnection", "beginTransaction", "query", "commit",
\*             "rollback": the call the handler awaits; "done": the handler
\*             has returned; "rejected": it has thrown
\*   acquired, released     how often it got a connection and released one
\*   pending   the rows its open transaction has inserted
\*   status    the status of the response sent, 0 for none
\*   inserted  the count the response reports

\* connectionLimit of the pool.
ConnectionLimit == 10

\* The versions of express the backend may be installed with: 4 leaves the
\* rejection of an async handler unhandled and sends nothing, 5 passes it
\* to the error handler, which answers 500.
ExpressVersions == {4, 5}

Bodies ==
    {[isArray |-> FALSE, n |-> 0, malformed |-> FALSE]} \cup
    {[isArray |-> TRUE, n |-> k, malformed |-> FALSE] : k \in 0 .. MaxBatch} \cup
    {[isArray |-> TRUE, n |-> k, malformed |-> TRUE] : k \in 1 .. MaxBatch}

ServerInit ==
    /\ EngineIs(constructor(TrackerMaxDisappeared, TrackerMaxDistance))
    /\ PumpIdle
    /\ component = "components/Tracker.jsx"
    /\ ServerIdle
    /\ express \in ExpressVersions

ServerFrame == UNCHANGED <<engineVars, historyVars, pumpVars, express>>

\* finally { conn.release() }
Released(q) == [q EXCEPT !.released = @ + 1]

\* The handler throws out of its async function.
Rejected(q) ==
    [q EXCEPT !.pc = "rejected", !.status = IF express = 5 THEN 500 ELSE 0]

\* The catch block up to its await: conn.rollback() is called.
Caught(q) == [q EXCEPT !.pc = "rollback"]

\* A request arrives: the handler answers 400, or asks the pool for a
\* connection.
Receive(r) ==
    /\ reqs[r].pc = "none"
    /\ \A t \in 1 .. r - 1 : reqs[t].pc # "none"
    /\ \E body \in Bodies :
           reqs' = [reqs EXCEPT ![r] =
                       IF body.isArray
                       THEN [@ EXCEPT !.pc = "getConnection", !.isArray = TRUE,
                                      !.n = body.n, !.malformed = body.malformed]
                       ELSE [@ EXCEPT !.pc = "done", !.status = 400]]
    /\ UNCHANGED <<table, inUse>>
    /\ ServerFrame

\* pool.getConnection() resolves; conn.beginTransaction() is called.
GetConnectionResolves(r) ==
    /\ reqs[r].pc = "getConnection"
    /\ inUse < ConnectionLimit
    /\ inUse' = inUse + 1
    /\ reqs' = [reqs EXCEPT ![r] = [@ EXCEPT !.pc = "beginTransaction", !.acquired = @ + 1]]
    /\ UNCHANGED table
    /\ ServerFrame

\* pool.getConnection() rejects, outside the try: the handler throws.
GetConnectionRejects(r) ==
    /\ reqs[r].pc = "getConnection"
    /\ reqs' = [reqs EXCEPT ![r] = Rejected(@)]
    /\ UNCHANGED <<table, inUse>>
    /\ ServerFrame

\* beginTransaction resolves; the values are mapped, which throws on a null
\* element; then the rows are inserted, or with none the commit is called.
BeginResolves(r) ==
    /\ reqs[r].pc = "beginTransaction"
    /\ reqs' = [reqs EXCEPT ![r] =
                   IF @.malformed THEN Caught(@)
                   ELSE IF @.n > 0 THEN [@ EXCEPT !.pc = "query"]
                   ELSE [@ EXCEPT !.pc = "commit"]]
    /\ UNCHANGED <<table, inUse>>
    /\ ServerFrame

\* The INSERT of all the rows resolves; conn.commit() is called.
QueryResolves(r) ==
    /\ reqs[r].pc = "query"
    /\ reqs' = [reqs EXCEPT ![r] = [@ EXCEPT !.pc = "commit", !.pending = reqs[r].n]]
    /\ UNCHANGED <<table, inUse>>
    /\ ServerFrame

\* beginTransaction, the INSERT (which then inserts no row) or commit
\* rejects: the catch block calls conn.rollback().
CallRejects(r) ==
    /\ reqs[r].pc \in {"beginTransaction", "query", "commit"}
    /\ reqs' = [reqs EXCEPT ![r] = Caught(@)]
    /\ UNCHANGED <<table, inUse>>
    /\ ServerFrame

\* commit resolves: the rows are in the table, the count is answered and
\* the connection released.
CommitResolves(r) ==
    /\ reqs[r].pc = "commit"
    /\ table' = [table EXCEPT ![r] = @ + reqs[r].pending]
    /\ reqs' = [reqs EXCEPT ![r] =
                   Released([@ EXCEPT !.pc = "done", !.pending = 0,
                                      !.status = 200, !.inserted = reqs[r].n])]
    /\ inUse' = inUse - 1
    /\ ServerFrame

\* rollback resolves: the rows of the transaction are dropped, 500 is
\* answered and the connection released.
RollbackResolves(r) ==
    /\ reqs[r].pc = "rollback"
    /\ reqs' = [reqs EXCEPT ![r] =
                   Released([@ EXCEPT !.pc = "done", !.pending = 0, !.status = 500])]
    /\ inUse' = inUse - 1
    /\ UNCHANGED table
    /\ ServerFrame

\* rollback rejects, as on a connection that is lost, whose transaction
\* the database drops: the catch block throws, the connection is released.
RollbackRejects(r) ==
    /\ reqs[r].pc = "rollback"
    /\ reqs' = [reqs EXCEPT ![r] = Released(Rejected([@ EXCEPT !.pending = 0]))]
    /\ inUse' = inUse - 1
    /\ UNCHANGED table
    /\ ServerFrame

ServerNext ==
    \E r \in 1 .. MaxRequests :
        \/ Receive(r)
        \/ GetConnectionResolves(r)
        \/ GetConnectionRejects(r)
        \/ BeginResolves(r)
        \/ QueryResolves(r)
        \/ CallRejects(r)
        \/ CommitResolves(r)
        \/ RollbackResolves(r)
        \/ RollbackRejects(r)

ServerSpec == ServerInit /\ [][ServerNext]_vars

\* ----------------------------------------------------------------- claims

IssuedIDs == {issued[k] : k \in 1 .. Len(issued)}
GoneIDs == KeySet(gone)
LiveIDs == KeySet(objects)
PreIDs == KeySet(last.pre)
LastCents == inputCentroids(last.rects)

\* The ids the last call registered: the tail of the log of register.
NewIDs == {issued[k] : k \in (Len(issued) - last.nIssued + 1) .. Len(issued)}

\* A distance greater than max_distance, on integers: a distance is at
\* least 0, and between two numbers that are not negative the squares
\* compare as the numbers do.
Farther(a, b) == maxDistance < 0 \/ Dist2(a, b) > maxDistance * maxDistance

\* C1: every id register issues is strictly greater than every id issued
\* before it, the first is 1, the counter is above all of them, so no id is
\* issued twice, also after the object that held it was deregistered.
MonotonicIds ==
    /\ \A i, j \in 1 .. Len(issued) : i < j => issued[i] < issued[j]
    /\ \A i \in 1 .. Len(issued) : 1 <= issued[i] /\ issued[i] < nextObjectID
    /\ issued # <<>> => issued[1] = 1
    /\ GoneIDs \subseteq IssuedIDs
    /\ LiveIDs \subseteq IssuedIDs

\* An id was issued after a smaller one had been deregistered.
IssuedAfterRemoval ==
    \E g \in GoneIDs : \E id \in LiveIDs : id > g /\ id \in NewIDs

\* C2: an object unmatched for at most max_disappeared consecutive calls is
\* still tracked; once it has been unmatched for more it is gone, and it went
\* in the call that made it max_disappeared + 1, after empty frames and
\* after frames of non-matching boxes alike.
AgingCorrect ==
    \A id \in DOMAIN missRun :
        /\ missRun[id] <= maxDisappeared => id \in LiveIDs
        /\ (missRun[id] >= 1 /\ missRun[id] > maxDisappeared) => id \notin LiveIDs
        /\ (id \in GoneIDs /\ maxDisappeared >= 0) => missRun[id] = maxDisappeared + 1

\* A frame of non-matching boxes removed an object at max_disappeared + 1
\* misses and left another at exactly max_disappeared misses.
AgedOutByBoxes ==
    /\ last.called /\ last.rects # <<>> /\ maxDisappeared >= 1
    /\ \E id \in PreIDs \cap GoneIDs : missRun[id] = maxDisappeared + 1
    /\ \E id \in LiveIDs : missRun[id] = maxDisappeared

\* C3: a detection farther than max_distance from every live object is in
\* no match, is registered under a new id, and no object that lived before
\* the call is moved to its centroid.
DistanceGating ==
    last.called =>
        LET IsFar(j) == \A i \in 1 .. Len(last.pre) : Farther(last.pre[i].val, LastCents[j])
        IN  \A j \in 1 .. Len(LastCents) :
                IsFar(j) =>
                    /\ \A k \in 1 .. Len(last.matches) : last.matches[k][2] # j
                    /\ \A id \in PreIDs \cap LiveIDs :
                           MapGet(objects, id) = LastCents[j]
                               => MapGet(last.pre, id) = LastCents[j]
                    /\ Cardinality({id \in NewIDs \cap LiveIDs : MapGet(objects, id) = LastCents[j]})
                           >= Cardinality({j2 \in 1 .. Len(LastCents) :
                                              IsFar(j2) /\ LastCents[j2] = LastCents[j]})
                    /\ \A id \in NewIDs : \A old \in PreIDs : id > old

\* One call matched a near detection and registered a far one.
FarDetectionRegistered ==
    /\ last.called /\ last.pre # <<>> /\ maxDistance >= 1
    /\ last.matches # <<>>
    /\ \E j \in 1 .. Len(LastCents) :
           /\ \A i \in 1 .. Len(last.pre) : Farther(last.pre[i].val, LastCents[j])
           /\ \E id \in NewIDs : MapGet(objects, id) = LastCents[j]

\* The objects the last call found: those of them it matched, and the ones
\* the call before it had matched or registered (their missed count was 0).
LastMatched == MatchedIDs(last.pre, last.matches)
FreshBefore == {id \in PreIDs : MapGet(last.preDis, id) = 0}

\* The objects deregister had removed before the last call.
GoneBefore == SubSeq(gone, 1, Len(gone) - last.nGone)

\* C4 as stated, on an engine with positive thresholds: a call with exactly
\* the boxes of the call before it leaves the mapping as it was.
RepeatChangesNothing ==
    (last.repeat /\ maxDisappeared > 0 /\ maxDistance > 0) => objects = last.pre

\* C4, amended: a call with exactly the boxes of the call before it moves no
\* object; with max_distance >= 0 it adds no id, and the objects the call
\* before matched or registered keep id, centroid and missed count 0; every
\* other object is aged once more and is removed if and only if its missed
\* count then exceeds max_disappeared.  With max_distance < 0 nothing
\* matches and every box is registered again.
RepeatKeepsFreshObjects ==
    last.repeat =>
        /\ \A id \in PreIDs \cap LiveIDs : MapGet(objects, id) = MapGet(last.pre, id)
        /\ maxDistance >= 0 =>
               /\ LiveIDs \subseteq PreIDs
               /\ last.rects # <<>> =>
                      /\ LastMatched = FreshBefore
                      /\ \A id \in FreshBefore :
                             id \in LiveIDs /\ MapGet(disappeared, id) = 0
               /\ \A id \in PreIDs \ LastMatched :
                      IF MapGet(last.preDis, id) + 1 > maxDisappeared
                      THEN id \notin LiveIDs
                      ELSE id \in LiveIDs
                           /\ MapGet(disappeared, id) = MapGet(last.preDis, id) + 1
        /\ maxDistance < 0 =>
               /\ last.matches = <<>>
               /\ last.nIssued = Len(last.rects)

\* A repeated frame matched an object again while another object, left
\* unmatched a second time, was removed.
RepeatAgedOneOut ==
    /\ last.repeat /\ last.matches # <<>> /\ maxDistance >= 0
    /\ \E id \in FreshBefore : id \in LiveIDs
    /\ \E id \in PreIDs : id \notin LiveIDs

\* C5: the live count after a call is the count before it, less the objects
\* the empty-frame branch removed, less the unmatched rows the general
\* branch removed (one call takes one branch, so one of the two is 0), plus
\* the objects registered; it is never negative.  The removed and the
\* registered are counted by the calls of deregister and register.
CardinalityLaw ==
    last.called =>
        LET removedCount == IF last.rects = <<>> THEN last.nGone ELSE 0
            unmatchedRowsRemoved == IF last.rects # <<>> THEN last.nGone ELSE 0
        IN  /\ Len(objects) = (Len(last.pre) - removedCount - unmatchedRowsRemoved) + last.nIssued
            /\ Len(objects) >= 0
            /\ unmatchedRowsRemoved <= Len(last.pre) - Len(last.matches)
            /\ last.nIssued = IF last.pre = <<>> THEN Len(last.rects)
                              ELSE Len(last.rects) - Len(last.matches)

\* One call matched an object, removed an unmatched one and registered a new one.
RemovedAndRegistered ==
    /\ last.called /\ last.matches # <<>>
    /\ last.nGone >= 1 /\ last.nIssued >= 1

\* C6: no update runs on an engine whose max_disappeared or max_distance is
\* not positive: the constructor rejects such an engine.
NonPositiveThresholdRejected ==
    last.called => (maxDisappeared > 0 /\ maxDistance > 0)

\* C7: in a call on a non-empty engine a matched object has the centroid of
\* its detection and a missed count of 0; an unmatched one has its missed
\* count raised by exactly 1 and its centroid untouched, or it was removed
\* because the raised count exceeds max_disappeared.
MatchEffects ==
    (last.called /\ last.pre # <<>>) =>
        /\ \A k \in 1 .. Len(last.matches) :
               LET id == last.pre[last.matches[k][1]].key
               IN  /\ id \in LiveIDs
                   /\ MapGet(objects, id) = LastCents[last.matches[k][2]]
                   /\ MapGet(disappeared, id) = 0
        /\ \A id \in PreIDs \ LastMatched :
               IF id \in LiveIDs
               THEN /\ MapGet(disappeared, id) = MapGet(last.preDis, id) + 1
                    /\ MapGet(objects, id) = MapGet(last.pre, id)
               ELSE MapGet(last.preDis, id) + 1 > maxDisappeared

\* One call moved a matched object to a new centroid and left an unmatched
\* one in place with one more miss.
MatchedAndMissed ==
    /\ last.called
    /\ \E k \in 1 .. Len(last.matches) :
           last.pre[last.matches[k][1]].val # LastCents[last.matches[k][2]]
    /\ \E id \in (PreIDs \ LastMatched) \cap LiveIDs : MapGet(disappeared, id) >= 1

\* The detections of the last call that sit at the last centroid of an
\* object removed before it.
Reappearing(j) == \E g \in 1 .. Len(GoneBefore) : GoneBefore[g].val = LastCents[j]

\* C8 as stated, on an engine with positive thresholds: a removed id never
\* comes back, and a detection at the last centroid of a removed object is
\* registered under a new, larger id.
ReappearanceRegistered ==
    /\ GoneIDs \cap LiveIDs = {}
    /\ (last.called /\ maxDisappeared > 0 /\ maxDistance > 0) =>
           \A j \in 1 .. Len(LastCents) :
               Reappearing(j) =>
                   /\ \A k \in 1 .. Len(last.matches) : last.matches[k][2] # j
                   /\ \E id \in NewIDs : MapGet(objects, id) = LastCents[j]

\* C8, amended: a removed id is in neither table ever again, and a
\* detection at the last centroid of a removed object is either matched to
\* another object that is live, or registered under an id larger than the
\* removed one.
NoResurrection ==
    /\ GoneIDs \cap LiveIDs = {}
    /\ GoneIDs \cap KeySet(disappeared) = {}
    /\ \A g, h \in 1 .. Len(gone) : g # h => gone[g].key # gone[h].key
    /\ last.called =>
           \A j \in 1 .. Len(LastCents) :
               \A g \in 1 .. Len(GoneBefore) :
                   GoneBefore[g].val = LastCents[j] =>
                       \/ \E k \in 1 .. Len(last.matches) :
                              /\ last.matches[k][2] = j
                              /\ last.pre[last.matches[k][1]].key # GoneBefore[g].key
                       \/ \E id \in NewIDs :
                              /\ id > GoneBefore[g].key
                              /\ MapGet(objects, id) = LastCents[j]

\* A detection came back at the last centroid of a removed object and was
\* registered under a larger id.
ReappearedUnderNewId ==
    /\ last.called
    /\ \E j \in 1 .. Len(LastCents) :
           /\ Reappearing(j)
           /\ \A k \in 1 .. Len(last.matches) : last.matches[k][2] # j
           /\ \E id \in NewIDs : MapGet(objects, id) = LastCents[j]

\* The live objects as near to detection i of dets as any.
NearestEntries(i) ==
    {k \in 1 .. Len(objects) :
        \A m \in 1 .. Len(objects) :
            Dist2(objects[k].val, Centroid(dets[i].rect)) <=
                Dist2(objects[m].val, Centroid(dets[i].rect))}

\* The tick that computed dets is the call of update seen last.
DetsOfLastCall ==
    /\ last.called
    /\ Len(dets) > 0
    /\ Len(dets) = Len(last.rects)

\* C9: after update, detection i of the frame, in input order, carries the
\* id of a live object whose centroid is nearest to the centroid of the
\* detection's rect, and of the objects equally near it is the one that
\* comes first in the iteration order of objects.
ReassociatesNearest ==
    DetsOfLastCall =>
        \A i \in 1 .. Len(dets) :
            /\ dets[i].rect = last.rects[i]
            /\ NearestEntries(i) # {}
            /\ \E k \in NearestEntries(i) :
                   /\ dets[i].track_id = objects[k].key
                   /\ \A m \in NearestEntries(i) : k <= m

\* A detection has two live objects equally near, and another detection of
\* the same frame is nearest to an object that is not the first.
TiedAndLaterNearest ==
    /\ DetsOfLastCall
    /\ \E i \in 1 .. Len(dets) :
           /\ Cardinality(NearestEntries(i)) > 1
           /\ \E k \in NearestEntries(i) : dets[i].track_id = objects[k].key
    /\ \E i \in 1 .. Len(dets) :
           /\ 1 \notin NearestEntries(i)
           /\ \E k \in NearestEntries(i) : dets[i].track_id = objects[k].key

\* C10: a tick that awaits the answer to its POST ends and requests the
\* next tick, whatever becomes of the POST.
LoggingNeverBlocks ==
    \A s \in 1 .. MaxStarts : (runs[s].pc = "post") ~> (runs[s].pc = "raf")

\* C11: the first call of update that a run makes finds an engine with no
\* object, no count and no id issued, when every other call of start() has
\* ended or was never made.
RestartSeesFreshEngine ==
    ( /\ caller # 0
      /\ runs[caller].calls = 1
      /\ \A t \in 1 .. MaxStarts \ {caller} : runs[t].pc \in {"none", "done"} )
    => ( /\ last.pre = <<>>
         /\ last.preDis = <<>>
         /\ Len(issued) = last.nIssued )

\* The runs whose tick is suspended at an await.
InFlight == {s \in 1 .. MaxStarts : runs[s].pc \in {"detect", "post"}}

\* C12: at most one tick is suspended at an await at a time.
OneTickInFlight == Cardinality(InFlight) <= 1

\* C13: when the detector fails in a tick (the tick leaves its await of
\* detect() without an answer), the engine is as it was and the next tick
\* is requested.
DetectorFailureCaught ==
    [][ \A s \in 1 .. MaxStarts :
            (runs[s].pc = "detect" /\ runs'[s].pc # "detect" /\ detects' = detects)
            => (runs'[s].pc = "raf" /\ UNCHANGED engineVars) ]_vars

\* C14: while the video is not ready no pending tick goes on to the
\* detector, and the tick that fires then requests the next tick and leaves
\* the engine, the frame index, the detector and every POST as they were.
NotReadyTickRetries ==
    [][ /\ \A s \in 1 .. MaxStarts :
               (runs[s].pc = "raf" /\ ~videoReady) => runs'[s].pc \in {"raf", "done"}
        /\ retried' # 0 =>
               /\ ~videoReady
               /\ runs[retried'].pc = "raf"
               /\ runs' = runs
               /\ rafRef' = retried'
               /\ UNCHANGED <<engineVars, historyVars, frameIdx, dets, detects>> ]_vars

\* A tick has just found the video not ready and is pending again, after
\* frames were counted and objects registered.
RetriedWhileNotReady ==
    /\ retried # 0
    /\ runs[retried].pc = "raf"
    /\ rafRef = retried
    /\ ~videoReady
    /\ frameIdx > 0
    /\ Len(objects) > 0

\* The pairs (row, column) of the last call's distance matrix.
AllPairs == (1 .. Len(last.pre)) \X (1 .. Len(LastCents))

\* The pairs whose row and column no pair of taken holds.
FreePairs(taken) ==
    {p \in AllPairs : \A q \in taken : p[1] # q[1] /\ p[2] # q[2]}

PairDist(p) == Dist2(last.pre[p[1]].val, LastCents[p[2]])

\* The pair of a smallest distance that comes first in row-major order.
FirstSmallest(free) ==
    CHOOSE p \in free :
        \A q \in free :
            \/ PairDist(p) < PairDist(q)
            \/ /\ PairDist(p) = PairDist(q)
               /\ (p[1] < q[1] \/ (p[1] = q[1] /\ p[2] <= q[2]))

\* The reference procedure: take the first smallest free pair until none is
\* free or the smallest is farther than max_distance.
RECURSIVE Reference(_)
Reference(taken) ==
    LET free == FreePairs(taken)
    IN  IF free = {} THEN taken
        ELSE LET p == FirstSmallest(free)
             IN  IF Farther(last.pre[p[1]].val, LastCents[p[2]])
                 THEN taken
                 ELSE Reference(taken \cup {p})

LastMatches == {last.matches[k] : k \in 1 .. Len(last.matches)}

\* A call of update that found live objects and was given boxes.
GeneralCall == last.called /\ Len(last.pre) > 0 /\ Len(last.rects) > 0

\* C15: on live objects and a frame that is not empty, the matches update
\* commits are those of the reference procedure.
GreedyIsReference == GeneralCall => LastMatches = Reference({})

\* The first round had two pairs of the smallest distance, a match was
\* committed, and the loop stopped at a pair too far while a row and a
\* column were still free.
TiedThenStoppedShort ==
    /\ GeneralCall
    /\ \E p, q \in AllPairs :
           /\ p # q
           /\ PairDist(p) = PairDist(q)
           /\ \A o \in AllPairs : PairDist(p) <= PairDist(o)
    /\ LastMatches # {}
    /\ FreePairs(LastMatches) # {}

\* The rows that are free when match k of the last call is committed.
FreeRowsAt(k) ==
    {r \in 1 .. Len(last.pre) : \A h \in 1 .. k - 1 : last.matches[h][1] # r}

\* C16: both tables list the live objects by ascending id, in every state,
\* so the rows of the distance matrix are in registration order whatever
\* was matched, moved or removed before; and of two free objects equally
\* distant from a detection the one matched to it has the lower id.
RowsInRegistrationOrder ==
    /\ \A i, j \in 1 .. Len(objects) : i < j => objects[i].key < objects[j].key
    /\ MapKeys(disappeared) = MapKeys(objects)
    /\ last.called =>
           /\ \A i, j \in 1 .. Len(last.pre) : i < j => last.pre[i].key < last.pre[j].key
           /\ \A k \in 1 .. Len(last.matches) :
                  \A r \in FreeRowsAt(k) \ {last.matches[k][1]} :
                      PairDist(<<r, last.matches[k][2]>>) = PairDist(last.matches[k])
                          => last.pre[last.matches[k][1]].key < last.pre[r].key

\* After an object was removed, a detection equally distant from two live
\* objects was matched to one of them and moved it, and both stay live.
TieAfterRemovalAndMove ==
    /\ GeneralCall
    /\ Len(GoneBefore) > 0
    /\ \E k \in 1 .. Len(last.matches) :
           /\ \E r \in FreeRowsAt(k) \ {last.matches[k][1]} :
                  /\ PairDist(<<r, last.matches[k][2]>>) = PairDist(last.matches[k])
                  /\ last.pre[r].key \in LiveIDs
           /\ PairDist(last.matches[k]) > 0
           /\ last.pre[last.matches[k][1]].key \in LiveIDs

\* The boxes of the last call that no match took, in input order.
LastUnmatchedCols ==
    Unmatched(Len(LastCents), {last.matches[k][2] : k \in 1 .. Len(last.matches)})

\* The k-th id the last call issued.
NewID(k) == issued[Len(issued) - last.nIssued + k]

\* C17: the ids a call issues go to its unmatched boxes in input order: the
\* k-th unmatched box is registered under the k-th new id, and on an engine
\* with no live object that is the k-th box of the frame.
NewIdsFollowInput ==
    last.called =>
        /\ last.nIssued = Len(LastUnmatchedCols)
        /\ \A k \in 1 .. last.nIssued :
               /\ MapGet(objects, NewID(k)) = LastCents[LastUnmatchedCols[k]]
               /\ k > 1 => NewID(k - 1) < NewID(k)
        /\ Len(last.pre) = 0 => LastUnmatchedCols = [k \in 1 .. Len(LastCents) |-> k]

\* A call on live objects registered two boxes of different centroids.
TwoUnmatchedRegistered ==
    /\ GeneralCall
    /\ last.nIssued >= 2
    /\ LastCents[LastUnmatchedCols[1]] # LastCents[LastUnmatchedCols[2]]
    /\ NewID(1) \in LiveIDs /\ NewID(2) \in LiveIDs

\* C18: a pair is matched only at a distance of at most max_distance, and
\* a pair left free when the loop stops is strictly farther: a free pair at
\* exactly max_distance is not refused.
InclusiveThreshold ==
    GeneralCall =>
        /\ \A p \in LastMatches :
               maxDistance >= 0 /\ PairDist(p) <= maxDistance * maxDistance
        /\ \A p \in FreePairs(LastMatches) :
               maxDistance < 0 \/ PairDist(p) > maxDistance * maxDistance

\* An object and a detection exactly max_distance apart, not 0, were matched.
MatchedAtTheLimit ==
    /\ GeneralCall
    /\ maxDistance > 0
    /\ \E p \in LastMatches : PairDist(p) = maxDistance * maxDistance

\* A rectangle with its two corners swapped.
Swapped(r) == <<r[3], r[4], r[1], r[2]>>

\* c is v / 2 rounded to the nearest integer, a half going up.
IsRoundedHalf(c, v) == 2 * c - 1 <= v /\ v < 2 * c + 1

\* A rectangle of no area, or with a corner on the wrong side of the other.
Degenerate(r) == r[3] <= r[1] \/ r[4] <= r[2]

\* C19: whatever the rectangles of a frame, update ends with every one of
\* them given a centroid that a live object holds; the centroid is the
\* rounded midpoint of the corners and is the one of the rectangle with its
\* corners swapped.
DegenerateTolerated ==
    last.called =>
        \A j \in 1 .. Len(last.rects) :
            LET r == last.rects[j]
            IN  /\ IsRoundedHalf(LastCents[j][1], r[1] + r[3])
                /\ IsRoundedHalf(LastCents[j][2], r[2] + r[4])
                /\ LastCents[j] = Centroid(Swapped(r))
                /\ \E i \in 1 .. Len(objects) : objects[i].val = LastCents[j]

\* A frame held a rectangle of no area whose midpoint is a half and a
\* rectangle of negative height.
DegenerateFrame ==
    /\ last.called
    /\ \E j \in 1 .. Len(last.rects) :
           /\ last.rects[j][4] = last.rects[j][2]
           /\ (last.rects[j][1] + last.rects[j][3]) % 2 = 1
    /\ \E j \in 1 .. Len(last.rects) : last.rects[j][4] < last.rects[j][2]
    /\ \A j \in 1 .. Len(last.rects) : Degenerate(last.rects[j])

\* The smaller of two numbers.
Min(a, b) == IF a <= b THEN a ELSE b

\* C20: the matches of one call are one-to-one: no two of them share a row
\* (a live object) or a column (a detection), each names a row and a column
\* of the matrix, and there are at most min(live objects, detections).
OneToOneMatching ==
    last.called =>
        /\ \A k, h \in 1 .. Len(last.matches) :
               k # h => /\ last.matches[k][1] # last.matches[h][1]
                        /\ last.matches[k][2] # last.matches[h][2]
        /\ LastMatches \subseteq AllPairs
        /\ Len(last.matches) <= Min(Len(last.pre), Len(last.rects))

\* Two matches were committed, the later one to a detection farther from
\* its object than the detection the earlier match had taken.
SecondChoiceMatched ==
    /\ GeneralCall
    /\ \E k, h \in 1 .. Len(last.matches) :
           /\ k < h
           /\ PairDist(<<last.matches[h][1], last.matches[k][2]>>) < PairDist(last.matches[h])

\* C21: after update the two tables hold the same ids, every live id is
\* below nextObjectID, and every count is from 0 to max_disappeared.
TablesConsistent ==
    last.called =>
        /\ KeySet(objects) = KeySet(disappeared)
        /\ \A id \in LiveIDs : id < nextObjectID
        /\ \A i \in 1 .. Len(disappeared) :
               0 <= disappeared[i].val /\ disappeared[i].val <= maxDisappeared

\* The ways to give each box of the last call a live object of its own.
Assignments ==
    {f \in [1 .. Len(LastCents) -> LiveIDs] :
        \A i, j \in 1 .. Len(LastCents) : i # j => f[i] # f[j]}

\* C22: after a call with boxes, the boxes can each be given a live object
\* of their own that holds the box's centroid with a count of 0, so there
\* are at least as many live objects as boxes, and the ids the tick gives
\* to the detections of that frame are ids of live objects, none null.
EveryDetectionHasObject ==
    (last.called /\ Len(last.rects) > 0) =>
        /\ \E f \in Assignments :
               \A j \in 1 .. Len(LastCents) :
                   /\ MapGet(objects, f[j]) = LastCents[j]
                   /\ MapGet(disappeared, f[j]) = 0
        /\ Len(objects) >= Len(last.rects)
        /\ \A i \in 1 .. Len(dets) : dets[i].track_id # Null /\ dets[i].track_id \in LiveIDs

\* A tick took a frame of two detections at one place: one was matched to
\* the object that was there, the other registered, and both got an id.
TwinMatchedAndRegistered ==
    /\ DetsOfLastCall
    /\ Len(last.rects) = 2
    /\ LastCents[1] = LastCents[2]
    /\ Len(last.matches) = 1
    /\ last.nIssued = 1
    /\ \A i \in 1 .. Len(dets) : dets[i].track_id \in LiveIDs

\* The pump is stopped: the button reads "Start Camera" and no call of
\* start() is under way.
Stopped ==
    /\ ~running
    /\ \A s \in 1 .. MaxStarts : runs[s].pc \notin {"load", "media", "play"}

\* C23: while the pump is stopped no tick runs: the detector's answer is
\* not taken to update, no tick is requested and none finds the video not
\* ready.
StopHaltsPump ==
    [][ (Stopped /\ Stopped') =>
            /\ detects' = detects
            /\ retried' = 0
            /\ \A s \in 1 .. MaxStarts : runs'[s].pc = "raf" => runs[s].pc = "raf" ]_vars

\* The handler of request r has ended.
Ended(r) == reqs[r].pc \in {"done", "rejected"}

\* C24: a request whose detections is not an array is answered 400 and
\* gets no connection; any other ends with all its rows in the table and
\* their count answered with 200, or with none of them in the table and
\* 500 answered; and a connection it got is released once, no other.
AllOrNothing ==
    \A r \in 1 .. MaxRequests :
        /\ reqs[r].released <= reqs[r].acquired
        /\ reqs[r].acquired <= 1
        /\ Ended(r) =>
               /\ reqs[r].released = reqs[r].acquired
               /\ IF reqs[r].isArray
                  THEN \/ /\ reqs[r].status = 200
                          /\ reqs[r].inserted = reqs[r].n
                          /\ table[r] = reqs[r].n
                       \/ /\ reqs[r].status = 500
                          /\ table[r] = 0
                  ELSE reqs[r].status = 400 /\ reqs[r].acquired = 0

====
